---- MODULE Spec2Model ----
(***************************************************************************)
(* Se2SpaceMouse (se2_spacemouse.py): a timer-driven poll reads the device *)
(* state, handles the two buttons and projects the 6-element twist into    *)
(* the 3-element base command; advance() hands the command array to the    *)
(* caller and reset() zeroes it in place.                                  *)
(*                                                                         *)
(* numpy arrays are objects.  Two arrays matter: the one                   *)
(* self._base_command refers to and the one advance() last gave the        *)
(* caller; `held` says whether they are the same object.  Floats are       *)
(* modelled as integers (sensitivities in tenths).                         *)
(***************************************************************************)
EXTENDS Integers, Sequences, FiniteSets, TLC

\* Largest value an axis of the device reads (axes range over 0..MaxAxis).
MaxAxis == 1

AxisVals == 0 .. MaxAxis

\* The axes the device delivers, as the twist [vx, vy, vz, wx, wy, wz]:
\* vx, vy, wz free; vz, wx, wy move together.
DeviceAxes == {<<x, y, j, j, j, w>> : x \in AxisVals, y \in AxisVals,
                                      j \in AxisVals, w \in AxisVals}

\* state.buttons: [left, right]
ButtonStates == [1 .. 2 -> BOOLEAN]

\* The defaults of the constructor, in tenths: 0.8, 0.4, 1.0.
DefaultSens == <<8, 4, 10>>

\* Another (v_x_sensitivity, v_y_sensitivity, omega_z_sensitivity), in tenths.
OtherSens == <<3, 5, 2>>

CallbackNames == {"L", "R"}

\* The devices the model starts from: the sensitivities given to the
\* constructor and the names callbacks were registered under.  Both
\* sensitivity triples and all four sets of names occur.
Constructions ==
    { [sens |-> DefaultSens, callbacks |-> {}],
      [sens |-> DefaultSens, callbacks |-> {"L", "R"}],
      [sens |-> OtherSens, callbacks |-> {"L"}],
      [sens |-> OtherSens, callbacks |-> {"R"}] }

\* np.zeros(3)
Zeros3 == <<0, 0, 0>>

NoTwist == <<0, 0, 0, 0, 0, 0>>

VARIABLES
    v_x_sensitivity,      \* self._v_x_sensitivity
    v_y_sensitivity,      \* self._v_y_sensitivity
    omega_z_sensitivity,  \* self._omega_z_sensitivity
    additional_callbacks, \* keys of self._additional_callbacks
    base_command,         \* contents of the array self._base_command refers to
    held,                 \* the array advance() last gave the caller:
                          \*   "none", "command" (the array base_command
                          \*   refers to) or "old" (an array of its own)
    held_array,           \* contents of the caller's array when held = "old"
    state,                \* self._state: buttons and axes
    twist,                \* local of _listen_for_updates
    pc,                   \* position of the poll
    timer_armed,          \* a timer is pending
    timer_starts,         \* _start_timer() calls made by the current poll
    invoked,              \* callbacks called by the current poll
    pre,                  \* contents of the command when the projection began
    polled                \* a projection ran since construction / last reset

vars == <<v_x_sensitivity, v_y_sensitivity, omega_z_sensitivity,
          additional_callbacks, base_command, held, held_array, state, twist,
          pc, timer_armed, timer_starts, invoked, pre, polled>>

sens == <<v_x_sensitivity, v_y_sensitivity, omega_z_sensitivity>>

config == <<v_x_sensitivity, v_y_sensitivity, omega_z_sensitivity,
            additional_callbacks>>

timer == <<timer_armed, timer_starts>>

poll == <<state, twist, pc, invoked, pre>>

caller == <<held, held_array>>

----------------------------------------------------------------------------
(* Arrays *)

\* Mutant of Fill: the last element is left as it was.
Fill_SkipLast(a, v) == [i \in DOMAIN a |-> IF i = 3 THEN a[i] ELSE v]

\* ndarray.fill(v): overwrite every element in place.
Fill(a, v) == [i \in DOMAIN a |-> v]

\* array[i] = v (i is 1-based here)
SetItem(a, i, v) == [a EXCEPT ![i] = v]

\* What the caller sees in the array advance() gave it.
HeldValue == IF held = "command" THEN base_command ELSE held_array

----------------------------------------------------------------------------
(* Button conditions of _listen_for_updates *)

LeftOnly(b) == b[1] /\ ~b[2]

RightOnly(b) == b[2] /\ ~b[1]

\* The statement `self._additional_callbacks[name]` under its `in` guard:
\* the set of callbacks it calls.  The subscript is evaluated and dropped;
\* there is no call.
CallbackStatement(cbs, name) == {}

----------------------------------------------------------------------------
Init ==
    /\ \E c \in Constructions :
          /\ v_x_sensitivity = c.sens[1]
          /\ v_y_sensitivity = c.sens[2]
          /\ omega_z_sensitivity = c.sens[3]
          /\ additional_callbacks = c.callbacks
    /\ base_command = Zeros3
    /\ held = "none"
    /\ held_array = Zeros3
    /\ state = [buttons |-> <<FALSE, FALSE>>, axes |-> NoTwist]
    /\ twist = NoTwist
    /\ pc = "idle"
    /\ timer_armed = TRUE
    /\ timer_starts = 0
    /\ invoked = {}
    /\ pre = Zeros3
    /\ polled = FALSE

----------------------------------------------------------------------------
(* Caller operations *)

\* Mutant of Advance: a consuming read, the command is cleared once returned.
Advance_Consume ==
    /\ held' = "old"
    /\ held_array' = base_command
    /\ base_command' = Zeros3
    /\ UNCHANGED <<config, timer, poll, polled>>

\* advance(): return self._base_command (the array itself, not a copy).
\* The caller rebinds its variable, dropping the array it held before.
Advance ==
    /\ held' = "command"
    /\ held_array' = Zeros3
    /\ UNCHANGED <<config, base_command, timer, poll, polled>>

\* reset(): self._base_command.fill(0.0)
Reset ==
    /\ base_command' = Fill(base_command, 0)
    /\ polled' = FALSE
    /\ UNCHANGED <<config, caller, timer, poll>>

----------------------------------------------------------------------------
(* The poll: _listen_for_updates, one step per statement *)

\* The pending timer expires and calls _listen_for_updates.
TimerFire ==
    /\ pc = "idle"
    /\ timer_armed
    /\ timer_armed' = FALSE
    /\ timer_starts' = 0
    /\ invoked' = {}
    /\ pc' = "start_timer"
    /\ UNCHANGED <<config, base_command, caller, state, twist, pre, polled>>

\* Mutant of StartTimer: the poll goes on without restarting the timer.
StartTimer_Skipped ==
    /\ pc = "start_timer"
    /\ pc' = "read_state"
    /\ UNCHANGED <<config, base_command, caller, state, twist, timer, invoked,
                   pre, polled>>

\* line 74: self._start_timer()
StartTimer ==
    /\ pc = "start_timer"
    /\ timer_armed' = TRUE
    /\ timer_starts' = timer_starts + 1
    /\ pc' = "read_state"
    /\ UNCHANGED <<config, base_command, caller, state, twist, invoked, pre,
                   polled>>

\* line 77: self._read_mouse_state()
ReadMouseState ==
    /\ pc = "read_state"
    /\ \E b \in ButtonStates, a \in DeviceAxes :
          state' = [buttons |-> b, axes |-> a]
    /\ pc' = "buttons"
    /\ UNCHANGED <<config, base_command, caller, twist, timer, invoked, pre,
                   polled>>

\* lines 82-93: the if / elif on the buttons
HandleButtons ==
    /\ pc = "buttons"
    /\ IF LeftOnly(state.buttons)
       THEN /\ invoked' = IF "L" \in additional_callbacks
                          THEN invoked \cup CallbackStatement(additional_callbacks, "L")
                          ELSE invoked
            /\ UNCHANGED <<base_command, polled>>
       ELSE IF RightOnly(state.buttons)
       THEN /\ base_command' = Fill(base_command, 0)
            /\ polled' = FALSE
            /\ invoked' = IF "R" \in additional_callbacks
                          THEN invoked \cup CallbackStatement(additional_callbacks, "R")
                          ELSE invoked
       ELSE UNCHANGED <<base_command, polled, invoked>>
    /\ pc' = "transform"
    /\ UNCHANGED <<config, caller, state, twist, timer, pre>>

\* self._transform_state_to_twist(state)
TransformStateToTwist(s) == s.axes

\* line 96: twist = self._transform_state_to_twist(self._state)
Transform ==
    /\ pc = "transform"
    /\ twist' = TransformStateToTwist(state)
    /\ pc' = "l107"
    /\ UNCHANGED <<config, base_command, caller, state, timer, invoked, pre,
                   polled>>

\* Mutant of Line107: the command array is zeroed in place, no new array.
Line107_InPlace ==
    /\ pc = "l107"
    /\ base_command' = Fill(base_command, 0)
    /\ pre' = base_command
    /\ polled' = TRUE
    /\ pc' = "l108"
    /\ UNCHANGED <<config, caller, state, twist, timer, invoked>>

\* line 107: self._base_command = np.zeros(3)
\* A new array becomes the command; the old one lives on only if the caller
\* holds it.
Line107 ==
    /\ pc = "l107"
    /\ base_command' = Zeros3
    /\ IF held = "command"
       THEN held' = "old" /\ held_array' = base_command
       ELSE UNCHANGED caller
    /\ pre' = base_command
    /\ polled' = TRUE
    /\ pc' = "l108"
    /\ UNCHANGED <<config, state, twist, timer, invoked>>

\* line 108: self._base_command[0] = self._v_x_sensitivity * twist[0]
Line108 ==
    /\ pc = "l108"
    /\ base_command' = SetItem(base_command, 1, v_x_sensitivity * twist[1])
    /\ pc' = "l109"
    /\ UNCHANGED <<config, caller, state, twist, timer, invoked, pre, polled>>

\* Mutant of Line109: y is scaled by the x sensitivity.
Line109_WrongSens ==
    /\ pc = "l109"
    /\ base_command' = SetItem(base_command, 2, v_x_sensitivity * twist[2])
    /\ pc' = "l110"
    /\ UNCHANGED <<config, caller, state, twist, timer, invoked, pre, polled>>

\* line 109: self._base_command[1] = self._v_y_sensitivity * twist[1]
Line109 ==
    /\ pc = "l109"
    /\ base_command' = SetItem(base_command, 2, v_y_sensitivity * twist[2])
    /\ pc' = "l110"
    /\ UNCHANGED <<config, caller, state, twist, timer, invoked, pre, polled>>

\* Mutant of Line110: yaw is read from vz (index 2) instead of wz (index 5).
Line110_WrongAxis ==
    /\ pc = "l110"
    /\ base_command' = SetItem(base_command, 3, omega_z_sensitivity * twist[3])
    /\ pc' = "done"
    /\ UNCHANGED <<config, caller, state, twist, timer, invoked, pre, polled>>

\* line 110: self._base_command[2] = self._omega_z_sensitivity * twist[5]
Line110 ==
    /\ pc = "l110"
    /\ base_command' = SetItem(base_command, 3, omega_z_sensitivity * twist[6])
    /\ pc' = "done"
    /\ UNCHANGED <<config, caller, state, twist, timer, invoked, pre, polled>>

\* _listen_for_updates returns; its locals go away.
Return ==
    /\ pc = "done"
    /\ pc' = "idle"
    /\ twist' = NoTwist
    /\ pre' = Zeros3
    /\ UNCHANGED <<config, base_command, caller, state, timer, invoked,
                   polled>>

----------------------------------------------------------------------------
(* Specifications *)

\* The caller and the poll take turns (the timer callback runs between the
\* caller's operations).
Next ==
    \/ pc = "idle" /\ Advance
    \/ pc = "idle" /\ Reset
    \/ TimerFire
    \/ StartTimer
    \/ ReadMouseState
    \/ HandleButtons
    \/ Transform
    \/ Line107
    \/ Line108
    \/ Line109
    \/ Line110
    \/ Return

Spec == Init /\ [][Next]_vars

\* The timer callback runs on its own thread: the caller's operations
\* interleave with the statements of the poll.
NextConc ==
    \/ Advance
    \/ Reset
    \/ TimerFire
    \/ StartTimer
    \/ ReadMouseState
    \/ HandleButtons
    \/ Transform
    \/ Line107
    \/ Line108
    \/ Line109
    \/ Line110
    \/ Return

ConcSpec == Init /\ [][NextConc]_vars

----------------------------------------------------------------------------
(* _process_twist_command as a function of the twist (lines 107-110 run   *)
(* to completion, in order).                                               *)
ProcessTwistCommand(tw) ==
    LET a0 == Zeros3
        a1 == SetItem(a0, 1, v_x_sensitivity * tw[1])
        a2 == SetItem(a1, 2, v_y_sensitivity * tw[2])
        a3 == SetItem(a2, 3, omega_z_sensitivity * tw[6])
    IN  a3

\* The poll is inside _process_twist_command, past the allocation.
InProjection == pc \in {"l108", "l109", "l110"}

\* Neither button or both: the branch that is neither `if` nor `elif`.
NoSingleButton(b) == ~LeftOnly(b) /\ ~RightOnly(b)

\* A step of the poll that runs self.reset() (line 89).
PollReset == HandleButtons /\ RightOnly(state.buttons)

----------------------------------------------------------------------------
(* Claims *)

\* C1: a poll with exactly one button pressed has invoked the callback
\* registered under that button's name ("L" for left-only, "R" for
\* right-only) by the time it finishes, and has invoked nothing when no
\* callback is registered under that name.
C1_CallbackInvoked ==
    pc = "done" =>
       /\ (LeftOnly(state.buttons) =>
              IF "L" \in additional_callbacks THEN "L" \in invoked
                                              ELSE invoked = {})
       /\ (RightOnly(state.buttons) =>
              IF "R" \in additional_callbacks THEN "R" \in invoked
                                              ELSE invoked = {})

\* C2: when a right-only poll finishes the command is the zero vector,
\* whatever the axes read.
C2_RightOnlyZero ==
    (pc = "done" /\ RightOnly(state.buttons)) => base_command = Zeros3

\* C3: a poll with exactly one button pressed does not write the projected
\* twist: when it finishes the command is what it was when the button
\* handling ended (for left-only, what it was before the poll).
C3_SingleButtonNoProjection ==
    (pc = "done" /\ ~NoSingleButton(state.buttons)) => base_command = pre

\* C4: when a poll with neither or both buttons pressed finishes, the
\* command is [sx*axes[0], sy*axes[1], sw*axes[5]] of the reading with the
\* constructor's sensitivities, whatever the command was before; and its
\* button handling leaves the command alone (no reset).
C4_Projection ==
    /\ [](( pc = "done" /\ NoSingleButton(state.buttons)) =>
            base_command = << v_x_sensitivity * state.axes[1],
                              v_y_sensitivity * state.axes[2],
                              omega_z_sensitivity * state.axes[6] >>)
    /\ [][(HandleButtons /\ NoSingleButton(state.buttons)) =>
            UNCHANGED <<base_command, polled>>]_vars

C4_Witness ==
    /\ pc = "done"
    /\ state.buttons = <<TRUE, TRUE>>
    /\ pre # Zeros3
    /\ base_command # pre
    /\ base_command # Zeros3

\* C5: advance() between polls returns the command as the most recent poll
\* or reset() left it (the projection of the last reading, or zeros after a
\* reset or before any poll), and changes neither the command, the
\* sensitivities, the callbacks nor the timer.
C5_AdvancePureRead ==
    [][Advance =>
         /\ HeldValue' = (IF polled THEN ProcessTwistCommand(state.axes)
                                    ELSE Zeros3)
         /\ HeldValue' = base_command
         /\ UNCHANGED <<base_command, config, timer>>]_vars

C5_Witness ==
    /\ pc = "idle"
    /\ held = "command"
    /\ polled
    /\ base_command # Zeros3

\* C6: while no projection has run since construction or the last reset
\* the command is the zero vector (so advance() then returns zeros), and
\* reset() leaves the sensitivities unchanged.
C6_ZeroUntilPolled ==
    /\ [](~polled => (base_command = Zeros3 /\
                      (held = "command" => HeldValue = Zeros3)))
    /\ [][Reset => (base_command' = Zeros3 /\ sens' = sens)]_vars

C6_Witness ==
    /\ pc = "idle"
    /\ ~polled
    /\ held = "command"
    /\ NoSingleButton(state.buttons)
    /\ state.axes[1] # 0

\* C7: every poll re-arms the timer exactly once, and does so before it
\* reads the device state: from the read on, through every button case, to
\* the end of the poll and until the next poll starts, a timer is pending,
\* so the next poll can start.
C7_Rearm ==
    /\ (pc \notin {"idle", "start_timer"} =>
           (timer_starts = 1 /\ timer_armed))
    /\ (pc = "idle" => (timer_armed /\ ENABLED TimerFire))

C7_Witness ==
    /\ pc = "done"
    /\ timer_armed
    /\ timer_starts = 1
    /\ RightOnly(state.buttons)

\* C8: the finished command depends only on twist[0], twist[1], twist[5]:
\* any twist agreeing with the one read on those three gives the same
\* command, and changing any one axis other than twist[0] leaves
\* command[0] as it is (likewise twist[1] for command[1] and twist[5] for
\* command[2]).
C8_OnlyAxes015 ==
    pc = "done" =>
       /\ \A a \in AxisVals, b \in AxisVals, c \in AxisVals :
             ProcessTwistCommand(<<twist[1], twist[2], a, b, c, twist[6]>>)
                = base_command
       /\ \A k \in 1 .. 6, v \in AxisVals :
             LET c2 == ProcessTwistCommand([twist EXCEPT ![k] = v])
             IN  /\ (k # 1 => c2[1] = base_command[1])
                 /\ (k # 2 => c2[2] = base_command[2])
                 /\ (k # 6 => c2[3] = base_command[3])

C8_Witness ==
    /\ pc = "done"
    /\ twist[3] # 0
    /\ twist[1] # 0
    /\ twist[2] = 0
    /\ base_command[1] # 0

\* C9: with the poll on its own thread, an advance() that runs while the
\* poll is inside the projection observes either the complete command from
\* before the projection or the complete projected command.
C9_NoTornRead ==
    [][(Advance /\ InProjection) =>
          HeldValue' \in {pre, ProcessTwistCommand(twist)}]_vars

\* C10: the contents of an array the caller got from advance() change only
\* by reset() (called by the caller or by a right-only poll), never by a
\* later poll's projection.
C10_ReturnedArrayStable ==
    [][(held # "none" /\ ~Advance /\ HeldValue' # HeldValue) =>
          (Reset \/ PollReset)]_vars

C10_Witness ==
    /\ pc = "done"
    /\ held = "old"
    /\ held_array # Zeros3
    /\ base_command # Zeros3
    /\ base_command # held_array

====
